---------------------------- MODULE Spec2Model ----------------------------
(***************************************************************************)
(* UERRA hazard notebooks: the Indicator Calculator                        *)
(* (02_UERRA_indicatorsCalculation.ipynb) and the Extreme-Value Estimator  *)
(* (03_UERRA_returnLevelsCalculation.ipynb).                               *)
(*                                                                         *)
(* Three specifications share this module:                                 *)
(*   Spec      the batch loop of the Indicator Calculator over the input   *)
(*             files, one step per file and per indicator;                 *)
(*   SpecDays  the days-above-threshold computation applied to one grid    *)
(*             cell's temperature series (the computation is cell-wise);   *)
(*   SpecEV    the Extreme-Value Estimator: per-cell fit loop and save;    *)
(*   SpecPar   two workers running the Indicator Calculator's cell at the  *)
(*             same time on the same input folder and the same sink.       *)
(*                                                                         *)
(* Numbers: a value is a record [k, v] with k in "num", "nan", "inf".      *)
(* A statistic stored in an artifact is a reduced fraction [k, num, den].  *)
(***************************************************************************)
EXTENDS Integers, Sequences, FiniteSets, TLC

VARIABLES
    \* ---- Indicator Calculator batch (Spec)
    files,        \* the enumeration of get_subfiles(nc_files)
    sink,         \* general_path: artifact name -> artifact or Absent
    pc,           \* position of the notebook cell
    fileIdx,      \* index of the file of the current iteration
    step,         \* index of the indicator within the current file's loops
    sink0,        \* the sink as it was when the current run started
    attempted,    \* <<file, name>> whose existence check was reached this run
    visited,      \* files whose iteration was entered this run
    failed,       \* <<file, name>> whose computation or write raised this run
    writes,       \* name -> sequence of files that wrote it this run
    \* ---- days above threshold for one cell (SpecDays)
    t2m,          \* the cell's series: year -> day -> sub-daily values
    numbDays,     \* index in output_files_numDays -> NumbDaysAbove_avg, or NotComputed
    \* ---- Extreme-Value Estimator (SpecEV)
    daily_precip,      \* cell -> year -> day -> value
    fitted,            \* cell -> what gumbel_r.fit does on the cell's sample
    return_levels_ds,  \* return period of a variable -> (cell -> value)
    evSink,            \* return_levels_gumbel.nc: artifact or Absent
    evPc,              \* position of the notebook
    cellIdx,           \* index of the cell of the current iteration
    evRun,             \* number of runs started so far
    evWrites,          \* number of times the artifact was written
    \* ---- two concurrent workers of the Indicator Calculator (SpecPar)
    workers,      \* worker -> position of its run of the cell
    wrote         \* <<worker, name>> whose to_netcdf completed

batchVars == <<files, sink, pc, fileIdx, step, sink0, attempted, visited,
               failed, writes>>
daysVars == <<t2m, numbDays>>
evVars == <<daily_precip, fitted, return_levels_ds, evSink, evPc, cellIdx,
            evRun, evWrites>>
parVars == <<workers, wrote>>
vars == <<batchVars, daysVars, evVars, parVars>>

-----------------------------------------------------------------------------
(* Values *)

NaN == [k |-> "nan", v |-> 0]
Inf == [k |-> "inf", v |-> 0]
Num(x) == [k |-> "num", v |-> x]

IsNaN(a) == a.k = "nan"

\* a > b on floating point values; any comparison with NaN is false
Greater(a, b) ==
    CASE a.k = "nan" \/ b.k = "nan" -> FALSE
      [] a.k = "inf" -> b.k # "inf"
      [] b.k = "inf" -> FALSE
      [] OTHER -> a.v > b.v

RECURSIVE GCD(_, _)
GCD(a, b) == IF b = 0 THEN a ELSE GCD(b, a % b)

Abs(x) == IF x < 0 THEN -x ELSE x

\* a statistic: the fraction num/den in lowest terms, or missing
MissingStat == [k |-> "nan", num |-> 0, den |-> 1]
Stat(num, den) ==
    LET g == GCD(Abs(num), den)
    IN [k |-> "num", num |-> num \div g, den |-> den \div g]

RECURSIVE SumSeq(_)
SumSeq(s) == IF s = <<>> THEN 0 ELSE Head(s) + SumSeq(Tail(s))

RECURSIVE Flatten(_)
Flatten(ss) == IF ss = <<>> THEN <<>> ELSE Head(ss) \o Flatten(Tail(ss))

SelectNotNaN(s) == SelectSeq(s, LAMBDA a : ~IsNaN(a))

-----------------------------------------------------------------------------
(* Temporal reduction and the days-above-threshold indicator *)

MaxYears == 2
DaysPerYear == 2

\* max over a resampling bin, skipping NaN; NaN when the bin holds no value
RECURSIVE ResampleMax(_)
ResampleMax(bin) ==
    IF bin = <<>> THEN NaN
    ELSE LET rest == ResampleMax(Tail(bin))
             a == Head(bin)
         IN CASE IsNaN(a) -> rest
              [] IsNaN(rest) -> a
              [] Greater(a, rest) -> a
              [] OTHER -> rest

\* ds['t2m'].resample(time='D').max(): year -> day -> daily maximum
dailyMaxTemp(series) ==
    [y \in DOMAIN series |-> [d \in DOMAIN series[y] |-> ResampleMax(series[y][d])]]

\* the comparison of tx_days_above (op ">")
Exceeds(a, thresh) == Greater(a, Num(thresh))

\* xclim's missing-value check of a yearly indicator (check_missing = "any"):
\* the year is masked when any of its days is null
YearMaskedIfAllNull(year) == \A d \in DOMAIN year : IsNaN(year[d])
YearMasked(year) == \E d \in DOMAIN year : IsNaN(year[d])

\* xclim.atmos.tx_days_above(tasmax, thresh, freq="YS"): year -> count or NaN
tx_days_above(tasmax, thresh) ==
    [y \in DOMAIN tasmax |->
        IF YearMasked(tasmax[y]) THEN NaN
        ELSE Num(Len(SelectSeq(tasmax[y], LAMBDA a : Exceeds(a, thresh))))]

\* NumbDaysAbove.mean(dim='time', skipna=True)
MeanSkipna(counts) ==
    LET kept == SelectNotNaN(counts)
    IN IF kept = <<>> THEN MissingStat
       ELSE Stat(SumSeq([i \in DOMAIN kept |-> kept[i].v]), Len(kept))

NumbDaysAbove_avg(series, thresh) ==
    MeanSkipna(tx_days_above(dailyMaxTemp(series), thresh))

\* output_files_numDays
output_files_numDays ==
    << [fname |-> "NumbDaysAbove30.nc", threshold |-> 30],
       [fname |-> "NumbDaysAbove35.nc", threshold |-> 35],
       [fname |-> "NumbDaysAbove40.nc", threshold |-> 40],
       [fname |-> "NumbDaysAbove45.nc", threshold |-> 45] >>


-----------------------------------------------------------------------------
(* Percentiles *)

RECURSIVE Insert(_, _)
Insert(a, sorted) ==
    IF sorted = <<>> THEN <<a>>
    ELSE IF Greater(a, Head(sorted)) THEN <<Head(sorted)>> \o Insert(a, Tail(sorted))
    ELSE <<a>> \o sorted

RECURSIVE Sorted(_)
Sorted(s) == IF s = <<>> THEN <<>> ELSE Insert(Head(s), Sorted(Tail(s)))

\* DataArray.dropna(dim='time', how='all') for one cell
dropna(s) == SelectNotNaN(s)

\* DataArray.quantile(q, dim='time'), q in thousandths: linear interpolation
\* between the order statistics of the values that are not NaN
quantile(s, q) ==
    LET x == Sorted(SelectNotNaN(s))
        n == Len(x)
        h == (n - 1) * q
        lo == (h \div 1000) + 1
        hi == IF lo + 1 > n THEN n ELSE lo + 1
    IN IF n = 0 THEN MissingStat
       ELSE Stat(x[lo].v * 1000 + (h % 1000) * (x[hi].v - x[lo].v), 1000)

\* output_files_percent
output_files_percent ==
    << [fname |-> "Temp_P95.nc", percentile |-> 950],
       [fname |-> "Temp_P999.nc", percentile |-> 999] >>

\* output_files_percent_prec
output_files_percent_prec ==
    << [fname |-> "Precip_P95.nc", percentile |-> 990],
       [fname |-> "Precip_P995.nc", percentile |-> 995],
       [fname |-> "Precip_P999.nc", percentile |-> 999] >>

\* the indicators of the temperature branch, in the order of its two loops
TemperatureItems ==
    [i \in 1..Len(output_files_numDays) |->
        [fname |-> output_files_numDays[i].fname, kind |-> "numDays",
         param |-> output_files_numDays[i].threshold]]
    \o
    [i \in 1..Len(output_files_percent) |->
        [fname |-> output_files_percent[i].fname, kind |-> "percent",
         param |-> output_files_percent[i].percentile]]

\* the indicators of the precipitation branch
PrecipitationItems ==
    [i \in 1..Len(output_files_percent_prec) |->
        [fname |-> output_files_percent_prec[i].fname, kind |-> "percent_prec",
         param |-> output_files_percent_prec[i].percentile]]

Range(s) == {s[i] : i \in DOMAIN s}
TemperatureNames == {it.fname : it \in Range(TemperatureItems)}
PrecipitationNames == {it.fname : it \in Range(PrecipitationItems)}
Names == TemperatureNames \cup PrecipitationNames

\* what one iteration of an indicator loop computes from the open dataset
IndicatorValue(ds, item) ==
    CASE item.kind = "numDays" -> NumbDaysAbove_avg(ds.t2m, item.param)
      [] item.kind = "percent" ->
            quantile(dropna(Flatten(dailyMaxTemp(ds.t2m))), item.param)
      [] OTHER -> quantile(dropna(Flatten(ds.tp)), item.param)

-----------------------------------------------------------------------------
(* Input files of the batch *)

NFiles == 2

nm(x) == Num(x)

TempSeries ==
    << << << <<nm(36), nm(31)>>, <<nm(41), NaN>> >>,
          << <<nm(35), nm(29)>>, <<nm(46), nm(30)>> >> >>,
       << << <<nm(31), NaN>>, <<NaN, NaN>> >>,
          << <<nm(36), nm(36)>>, <<nm(30), nm(29)>> >> >> >>

PrecipSeries ==
    << << <<nm(50), nm(0)>>, <<nm(60), NaN>> >>,
       << <<nm(10), nm(20)>>, <<nm(70), nm(5)>> >> >>

DataIds == DOMAIN TempSeries
VarNames == {"t2m", "tp"}

File(nc, readable, data_vars, d) ==
    [nc |-> nc, readable |-> readable, data_vars |-> data_vars,
     t2m |-> TempSeries[d], tp |-> PrecipSeries[d]]

FileChoices ==
    {File(FALSE, TRUE, {}, 1), File(TRUE, FALSE, {}, 1), File(TRUE, TRUE, {}, 1)}
    \cup {File(TRUE, TRUE, vs, d) : vs \in (SUBSET VarNames) \ {{}}, d \in DataIds}

Absent == [val |-> MissingStat, by |-> 0]

\* os.path.exists(output_path)
ExistsNever(s, fname) == FALSE
Exists(s, fname) == s[fname] # Absent


-----------------------------------------------------------------------------
(* The batch loop of the Indicator Calculator *)

NoWrites == [nme \in Names |-> <<>>]

\* the variables the batch does not touch
OthersOfBatch == UNCHANGED <<daysVars, evVars, parVars>>

\* the loops run by the branch the file is dispatched to
ItemsOf(branch) ==
    IF branch = "temperature" THEN TemperatureItems ELSE PrecipitationItems

\* if "t2m" in ds.data_vars: ... elif "tp" in ds.data_vars: ...
Branch(ds) ==
    CASE "t2m" \in ds.data_vars -> "temperature"
      [] "tp" \in ds.data_vars -> "precipitation"
      [] OTHER -> "none"

\* the cell is run (again): the loop starts at the first file
StartRun ==
    /\ pc \in {"idle", "done", "aborted"}
    /\ sink0' = sink
    /\ pc' = "loop"
    /\ fileIdx' = 1
    /\ step' = 0
    /\ attempted' = {}
    /\ visited' = {}
    /\ failed' = {}
    /\ writes' = NoWrites
    /\ UNCHANGED <<files, sink>>
    /\ OthersOfBatch

\* the enumeration is exhausted: the cell ends normally
LoopEnd ==
    /\ pc = "loop"
    /\ fileIdx > Len(files)
    /\ pc' = "done"
    /\ UNCHANGED <<files, sink, fileIdx, step, sink0, attempted, visited,
                   failed, writes>>
    /\ OthersOfBatch

\* if file.endswith(".nc") is false: next file
SkipNotNc ==
    /\ pc = "loop"
    /\ fileIdx <= Len(files)
    /\ ~files[fileIdx].nc
    /\ fileIdx' = fileIdx + 1
    /\ UNCHANGED <<files, sink, pc, step, sink0, attempted, visited,
                   failed, writes>>
    /\ OthersOfBatch

\* xr.open_dataset raises; the call stands before the try, nothing catches it
OpenRaises ==
    /\ pc = "loop"
    /\ fileIdx <= Len(files)
    /\ files[fileIdx].nc
    /\ ~files[fileIdx].readable
    /\ pc' = "aborted"
    /\ UNCHANGED <<files, sink, fileIdx, step, sink0, attempted, visited,
                   failed, writes>>
    /\ OthersOfBatch

\* the dataset opens and is dispatched on its variables; with neither variable
\* the try block does nothing, the dataset is closed and the loop goes on
OpenAndDispatch ==
    /\ pc = "loop"
    /\ fileIdx <= Len(files)
    /\ files[fileIdx].nc
    /\ files[fileIdx].readable
    /\ visited' = visited \cup {fileIdx}
    /\ IF Branch(files[fileIdx]) = "none"
       THEN /\ fileIdx' = fileIdx + 1
            /\ UNCHANGED <<pc, step>>
       ELSE /\ pc' = Branch(files[fileIdx])
            /\ step' = 1
            /\ UNCHANGED fileIdx
    /\ UNCHANGED <<files, sink, sink0, attempted, failed, writes>>
    /\ OthersOfBatch

\* the end of one iteration of an indicator loop: the next indicator, or, after
\* the last one, finally: ds.close() and the next file
Advance ==
    IF step < Len(ItemsOf(pc))
    THEN /\ step' = step + 1
         /\ UNCHANGED <<pc, fileIdx>>
    ELSE /\ step' = 0
         /\ pc' = "loop"
         /\ fileIdx' = fileIdx + 1

\* os.path.exists(output_path) is true: "already exists. Skipping calculation."
SkipExisting ==
    /\ pc \in {"temperature", "precipitation"}
    /\ LET item == ItemsOf(pc)[step]
       IN /\ Exists(sink, item.fname)
          /\ attempted' = attempted \cup {<<fileIdx, item.fname>>}
    /\ Advance
    /\ UNCHANGED <<files, sink, sink0, visited, failed, writes>>
    /\ OthersOfBatch

\* the artifact is absent: the indicator is computed and saved with to_netcdf
ComputeAndSave ==
    /\ pc \in {"temperature", "precipitation"}
    /\ LET item == ItemsOf(pc)[step]
       IN /\ ~Exists(sink, item.fname)
          /\ attempted' = attempted \cup {<<fileIdx, item.fname>>}
          /\ sink' = [sink EXCEPT ![item.fname] =
                        [val |-> IndicatorValue(files[fileIdx], item),
                         by |-> fileIdx]]
          /\ writes' = [writes EXCEPT ![item.fname] = Append(@, fileIdx)]
    /\ Advance
    /\ UNCHANGED <<files, sink0, visited, failed>>
    /\ OthersOfBatch

\* the artifact is absent and its computation or its write raises: finally closes
\* the dataset, no except clause catches the exception, the cell ends with it
ComputeRaises ==
    /\ pc \in {"temperature", "precipitation"}
    /\ LET item == ItemsOf(pc)[step]
       IN /\ ~Exists(sink, item.fname)
          /\ attempted' = attempted \cup {<<fileIdx, item.fname>>}
          /\ failed' = failed \cup {<<fileIdx, item.fname>>}
    /\ pc' = "aborted"
    /\ UNCHANGED <<files, sink, fileIdx, step, sink0, visited, writes>>
    /\ OthersOfBatch

\* after a run that ended normally one artifact is deleted by hand
DeleteArtifact ==
    /\ pc = "done"
    /\ \E fname \in Names :
          /\ Exists(sink, fname)
          /\ sink' = [sink EXCEPT ![fname] = Absent]
    /\ pc' = "idle"
    /\ UNCHANGED <<files, fileIdx, step, sink0, attempted, visited, failed, writes>>
    /\ OthersOfBatch

\* SpecDays and SpecEV at rest
DaysIdle == /\ t2m = <<>>
            /\ numbDays = <<>>
EVIdle == /\ daily_precip = <<>>
          /\ fitted = <<>>
          /\ return_levels_ds = <<>>
          /\ evSink = <<>>
          /\ evPc = "off"
          /\ cellIdx = 0
          /\ evRun = 0
          /\ evWrites = 0
ParIdle == /\ workers = <<>>
           /\ wrote = {}
BatchIdle == /\ files = <<>>
             /\ sink = <<>>
             /\ pc = "off"
             /\ fileIdx = 0
             /\ step = 0
             /\ sink0 = <<>>
             /\ attempted = {}
             /\ visited = {}
             /\ failed = {}
             /\ writes = <<>>

Init ==
    /\ files \in [1..NFiles -> FileChoices]
    /\ sink = [nme \in Names |-> Absent]
    /\ pc = "idle"
    /\ fileIdx = 0
    /\ step = 0
    /\ sink0 = [nme \in Names |-> Absent]
    /\ attempted = {}
    /\ visited = {}
    /\ failed = {}
    /\ writes = NoWrites
    /\ DaysIdle
    /\ EVIdle
    /\ ParIdle

Next ==
    \/ StartRun
    \/ LoopEnd
    \/ SkipNotNc
    \/ OpenRaises
    \/ OpenAndDispatch
    \/ SkipExisting
    \/ ComputeAndSave
    \/ ComputeRaises
    \/ DeleteArtifact

Spec == Init /\ [][Next]_vars


-----------------------------------------------------------------------------
(* Days above threshold for one cell *)

NotComputed == [k |-> "none", num |-> 0, den |-> 1]

\* the sub-daily values a day of the series may hold
TempDayChoices == { <<NaN, NaN>>, <<nm(35), NaN>>, <<nm(36), nm(41)>> }

InitDays ==
    /\ t2m \in [1..MaxYears -> [1..DaysPerYear -> TempDayChoices]]
    /\ numbDays = [i \in DOMAIN output_files_numDays |-> NotComputed]
    /\ BatchIdle
    /\ EVIdle
    /\ ParIdle

\* one iteration of the threshold loop on the cell
ComputeNumbDays ==
    /\ \E i \in DOMAIN output_files_numDays :
          /\ numbDays[i] = NotComputed
          /\ numbDays' = [numbDays EXCEPT ![i] =
                NumbDaysAbove_avg(t2m, output_files_numDays[i].threshold)]
    /\ UNCHANGED <<t2m, batchVars, evVars, parVars>>

NextDays == ComputeNumbDays

SpecDays == InitDays /\ [][NextDays]_vars


-----------------------------------------------------------------------------
(* Properties of the Indicator Calculator batch (Spec) *)

\* the variable an artifact name is computed from
VarOf(fname) == IF fname \in TemperatureNames THEN "t2m" ELSE "tp"

ItemNamed(fname) ==
    CHOOSE it \in Range(TemperatureItems) \cup Range(PrecipitationItems) :
        it.fname = fname

\* the files of the enumeration that pass the ".nc" filter
NcFiles == {i \in DOMAIN files : files[i].nc}

RunEnded == pc \in {"done", "aborted"}

\* C1: a run that ends normally has written exactly the artifacts whose name
\* was absent from the sink when it started and whose variable is present in
\* some input file, and has left every artifact that existed unchanged.
C1_WritesExactlyAbsentAndPresent ==
    pc = "done" =>
        \A fname \in Names :
            /\ (writes[fname] # <<>>) <=>
                  (/\ ~Exists(sink0, fname)
                   /\ \E i \in NcFiles : VarOf(fname) \in files[i].data_vars)
            /\ Exists(sink0, fname) => sink[fname] = sink0[fname]

\* C2: when the computation or the write of an indicator of a file raised,
\* the run has still reached every later indicator of that file and every
\* later readable file of the enumeration.
C2_IndicatorFailureIsolated ==
    RunEnded =>
        \A fl \in failed :
            LET f == fl[1]
                items == ItemsOf(Branch(files[f]))
                at == CHOOSE j \in DOMAIN items : items[j].fname = fl[2]
            IN /\ \A j \in DOMAIN items :
                     j > at => <<f, items[j].fname>> \in attempted
               /\ \A g \in NcFiles :
                     (g > f /\ files[g].readable) => g \in visited

\* C3: in a run in which no indicator raised, a file that cannot be opened or
\* that holds none of the variables writes nothing, and every readable file
\* after it in the enumeration is still processed.
C3_BadFileSkipped ==
    (RunEnded /\ failed = {}) =>
        \A f \in NcFiles :
            (~files[f].readable \/ Branch(files[f]) = "none") =>
                /\ \A fname \in Names : \A j \in DOMAIN writes[fname] :
                      writes[fname][j] # f
                /\ \A g \in NcFiles :
                      (g > f /\ files[g].readable) => g \in visited

\* C9: within one batch each artifact is written at most once, by the first
\* file whose loop reaches its name, every later file skips the name, and the
\* artifact holds that first file's result.
C9_WrittenOnceByFirstFile ==
    pc # "idle" =>
        \A fname \in Names :
            /\ Len(writes[fname]) <= 1
            /\ writes[fname] # <<>> =>
                  LET w == writes[fname][1]
                  IN /\ sink[fname] =
                          [val |-> IndicatorValue(files[w], ItemNamed(fname)),
                           by |-> w]
                     /\ \A a \in attempted : a[2] = fname => a[1] >= w
            /\ writes[fname] = <<>> => sink[fname] = sink0[fname]

\* two files of the same kind with different results for an artifact: the first
\* wrote it, the second reached its name, the batch has ended
C9_Witness ==
    /\ pc = "done"
    /\ \E fname \in Names :
          /\ writes[fname] = <<1>>
          /\ <<2, fname>> \in attempted
          /\ IndicatorValue(files[1], ItemNamed(fname))
                # IndicatorValue(files[2], ItemNamed(fname))

\* C10: after a run that ends normally, every readable file that holds the
\* precipitation variable has reached each precipitation artifact, which
\* exists, and every readable file that holds the temperature variable has
\* reached each temperature artifact, which exists.
C10_EveryVariableOfAFileProcessed ==
    pc = "done" =>
        \A f \in NcFiles : \A fname \in Names :
            (files[f].readable /\ VarOf(fname) \in files[f].data_vars) =>
                /\ <<f, fname>> \in attempted
                /\ Exists(sink, fname)

-----------------------------------------------------------------------------
(* Properties of the days-above-threshold computation (SpecDays) *)

Finite(bin) == {bin[j] : j \in {j \in DOMAIN bin : bin[j].k = "num"}}

\* whether a day holds a value above T at any of its time steps
DayAbove(day, T) == \E a \in Finite(day) : a.v > T
DayHasData(day) == Finite(day) # {}

YearsWithData == {y \in DOMAIN t2m : \E d \in DOMAIN t2m[y] : DayHasData(t2m[y][d])}
CompleteYears == {y \in DOMAIN t2m : \A d \in DOMAIN t2m[y] : DayHasData(t2m[y][d])}

\* the days above T summed over the years ys, divided by the number of years
DaysAbovePerYear(ys, T) ==
    IF ys = {} THEN MissingStat
    ELSE Stat(Cardinality({yd \in ys \X (1..DaysPerYear) :
                              DayAbove(t2m[yd[1]][yd[2]], T)}),
              Cardinality(ys))

\* C8 as stated: the years that count are the years in which the cell has data.
C8_AverageOverYearsWithData ==
    \A i \in DOMAIN numbDays :
        numbDays[i] # NotComputed =>
            numbDays[i] = DaysAbovePerYear(YearsWithData,
                                           output_files_numDays[i].threshold)

\* C8 amended: the years that count are the years in which the cell has a
\* daily maximum on every day; a year with any day missing is left out whole.
C8_AverageOverCompleteYears ==
    \A i \in DOMAIN numbDays :
        numbDays[i] # NotComputed =>
            numbDays[i] = DaysAbovePerYear(CompleteYears,
                                           output_files_numDays[i].threshold)

\* days-above-35 computed as 1/2: one day above 35 in one year, none in the other
C8_Witness ==
    \E i \in DOMAIN numbDays :
        /\ output_files_numDays[i].threshold = 35
        /\ numbDays[i] = Stat(1, 2)
        /\ CompleteYears = DOMAIN t2m


-----------------------------------------------------------------------------
(* The Extreme-Value Estimator *)

MaxRunsEV == 2

\* the coordinates of the grid; the loop visits x outermost, y innermost
XCoords == <<1, 2>>
YCoords == <<1, 2>>
Cells == Range(XCoords) \X Range(YCoords)
CellSeq ==
    [i \in 1..(Len(XCoords) * Len(YCoords)) |->
        <<XCoords[((i - 1) \div Len(YCoords)) + 1],
          YCoords[((i - 1) % Len(YCoords)) + 1]>>]

\* the daily series a cell may hold: year -> day -> value
PrecipCellChoices ==
    { << <<NaN, NaN>>, <<NaN, NaN>> >>,
      << <<nm(50), NaN>>, <<NaN, NaN>> >>,
      << <<nm(50), nm(60)>>, <<nm(60), NaN>> >>,
      << <<nm(50), NaN>>, <<nm(60), nm(45)>> >>,
      << <<nm(50), nm(55)>>, <<Inf, nm(60)>> >> }

\* daily_precip.resample(time='YE').max() for one cell: year -> annual maximum
annual_max_precip(series) == [y \in DOMAIN series |-> ResampleMax(series[y])]

\* annual_max_values[~np.isnan(annual_max_values)]
annual_max_values(series) == SelectNotNaN(annual_max_precip(series))

\* return_periods
return_periods == <<10, 20, 30, 50, 100, 150>>

\* exceedance_probs = 1 - (1 / return_periods), as fractions <<numerator, denominator>>
exceedance_probs_inverted(rps) == [i \in DOMAIN rps |-> <<1, rps[i]>>]
exceedance_probs(rps) == [i \in DOMAIN rps |-> <<rps[i] - 1, rps[i]>>]

\* return levels are kept in units of 1/PpfUnit of the unit of loc and scale
PpfUnit == 10^4

\* -log(-log(p)) in units of 1/PpfUnit, rounded down
NegLogNegLog(p) ==
    CASE p = <<9, 10>> -> 22503
      [] p = <<19, 20>> -> 29701
      [] p = <<29, 30>> -> 33842
      [] p = <<49, 50>> -> 39019
      [] p = <<99, 100>> -> 46001
      [] p = <<149, 150>> -> 50072
      [] p = <<1, 10>> -> -8341
      [] p = <<1, 20>> -> -10972
      [] p = <<1, 30>> -> -12242
      [] p = <<1, 50>> -> -13641
      [] p = <<1, 100>> -> -15272
      [] p = <<1, 150>> -> -16116

\* gumbel_r.ppf(p, loc, scale) = loc - scale * log(-log(p)); NaN parameters give NaN
gumbel_r_ppf(p, loc, scale) ==
    IF IsNaN(loc) \/ IsNaN(scale) THEN NaN
    ELSE Num(loc.v * PpfUnit + scale.v * NegLogNegLog(p))

\* what gumbel_r.fit may do on a sample.  The estimate itself is not computed:
\* it is any location within the sample's range and any scale of FitScales.
\*   a sample holding a non-finite value: the fit raises;
\*   a sample of identical values (a single value included): the likelihood has no
\*   maximum; the fit raises, or returns NaN parameters, or returns the value as
\*   location with a scale too small to move it (written as scale 0).
FitScales == {1, 2}
Raises == [k |-> "raises", loc |-> NaN, scale |-> NaN]
Params(loc, scale) == [k |-> "params", loc |-> loc, scale |-> scale]
Degenerate(sample) == \A i \in DOMAIN sample : sample[i] = sample[1]
gumbel_r_fit(sample) ==
    CASE \E i \in DOMAIN sample : sample[i].k = "inf" -> {Raises}
      [] Degenerate(sample) ->
            {Raises, Params(NaN, NaN), Params(sample[1], Num(0))}
      [] OTHER ->
            {Params(loc, Num(sc)) :
                loc \in {Sorted(sample)[1], Sorted(sample)[Len(sample)]},
                sc \in FitScales}

\* the fit of a cell: none when the sample is empty (len(annual_max_values) > 0 fails)
NoFit == [k |-> "nofit", loc |-> NaN, scale |-> NaN]
FitOf(series) ==
    IF Len(annual_max_values(series)) > 0
    THEN gumbel_r_fit(annual_max_values(series))
    ELSE {NoFit}
\* a cell's series together with what the fit does on it
CellChoices ==
    UNION {{[series |-> c, fit |-> f] : f \in FitOf(c)} : c \in PrecipCellChoices}

EvAbsent == [vars |-> <<>>, by |-> 0]

\* xr.full_like(annual_max_precip.isel(time=0), np.nan)
full_like_nan == [c \in Cells |-> NaN]

\* for rp, rl in zip(return_periods, return_levels): the variable of rp is created
\* filled with NaN if the dataset lacks it, then the cell is set to rl.
\* The variable return_period_{rp}_y is keyed by rp.
RECURSIVE StoreLevels(_, _, _, _)
StoreLevels(ds, cell, levels, i) ==
    IF i > Len(return_periods) THEN ds
    ELSE LET rp == return_periods[i]
             base == IF rp \in DOMAIN ds THEN ds[rp] ELSE full_like_nan
             ds1 == [r \in DOMAIN ds \cup {rp} |->
                        IF r = rp THEN [base EXCEPT ![cell] = levels[i]] ELSE ds[r]]
         IN StoreLevels(ds1, cell, levels, i + 1)

\* the return levels of a fitted cell
return_levels(fit) ==
    LET probs == exceedance_probs(return_periods)
    IN [i \in DOMAIN probs |-> gumbel_r_ppf(probs[i], fit.loc, fit.scale)]

OthersOfEV == UNCHANGED <<batchVars, daysVars, parVars>>

\* the notebook is run from the top: a new, empty return_levels_ds
StartEV ==
    /\ evPc \in {"idle", "saved", "aborted"}
    /\ evRun < MaxRunsEV
    /\ evRun' = evRun + 1
    /\ return_levels_ds' = <<>>
    /\ cellIdx' = 1
    /\ evPc' = "fitting"
    /\ UNCHANGED <<daily_precip, fitted, evSink, evWrites>>
    /\ OthersOfEV

\* one iteration of the loop over the cells, on a cell with an empty sample
SkipEmptyCell ==
    /\ evPc = "fitting"
    /\ cellIdx <= Len(CellSeq)
    /\ Len(annual_max_values(daily_precip[CellSeq[cellIdx]])) = 0
    /\ cellIdx' = cellIdx + 1
    /\ UNCHANGED <<daily_precip, fitted, return_levels_ds, evSink, evPc, evRun,
                   evWrites>>
    /\ OthersOfEV

\* one iteration on a cell with a sample: fit, return levels, store
FitCell ==
    /\ evPc = "fitting"
    /\ cellIdx <= Len(CellSeq)
    /\ Len(annual_max_values(daily_precip[CellSeq[cellIdx]])) > 0
    /\ fitted[CellSeq[cellIdx]].k = "params"
    /\ return_levels_ds' =
          StoreLevels(return_levels_ds, CellSeq[cellIdx],
                      return_levels(fitted[CellSeq[cellIdx]]), 1)
    /\ cellIdx' = cellIdx + 1
    /\ UNCHANGED <<daily_precip, fitted, evSink, evPc, evRun, evWrites>>
    /\ OthersOfEV

\* gumbel_r.fit raises in an iteration: nothing catches it, the notebook stops
FitRaises ==
    /\ evPc = "fitting"
    /\ cellIdx <= Len(CellSeq)
    /\ Len(annual_max_values(daily_precip[CellSeq[cellIdx]])) > 0
    /\ fitted[CellSeq[cellIdx]].k = "raises"
    /\ evPc' = "aborted"
    /\ UNCHANGED <<daily_precip, fitted, return_levels_ds, evSink, cellIdx, evRun,
                   evWrites>>
    /\ OthersOfEV

\* after the loop: return_levels_ds.to_netcdf(...), whatever the sink holds
SaveEV ==
    /\ evPc = "fitting"
    /\ cellIdx > Len(CellSeq)
    /\ evSink' = [vars |-> return_levels_ds, by |-> evRun]
    /\ evWrites' = evWrites + 1
    /\ evPc' = "saved"
    /\ UNCHANGED <<daily_precip, fitted, return_levels_ds, cellIdx, evRun>>
    /\ OthersOfEV

InitEV ==
    /\ \E ch \in [Cells -> CellChoices] :
          /\ daily_precip = [c \in Cells |-> ch[c].series]
          /\ fitted = [c \in Cells |-> ch[c].fit]
    /\ return_levels_ds = <<>>
    /\ evSink = EvAbsent
    /\ evPc = "idle"
    /\ cellIdx = 0
    /\ evRun = 0
    /\ evWrites = 0
    /\ BatchIdle
    /\ DaysIdle
    /\ ParIdle

NextEV ==
    \/ StartEV
    \/ SkipEmptyCell
    \/ FitCell
    \/ FitRaises
    \/ SaveEV

SpecEV == InitEV /\ [][NextEV]_vars


-----------------------------------------------------------------------------
(* Properties of the Extreme-Value Estimator (SpecEV) *)

Sample(c) == annual_max_values(daily_precip[c])

\* the stored return level of period rp at cell c in the artifact
Stored(rp, c) == evSink.vars[rp][c]

Less(a, b) == a.k = "num" /\ b.k = "num" /\ a.v < b.v

\* C4: over any sequence of runs the artifact is written at most once: a run
\* that finds it on the sink does not write it again.
C4_ArtifactWrittenAtMostOnce ==
    /\ evWrites <= 1
    /\ evSink # EvAbsent => evSink.by = 1

\* C5: in the saved artifact every configured return period has a map, and
\* every cell with an empty sample is missing in it.
C5_EmptyCellMissingInEveryMap ==
    evPc = "saved" =>
        \A c \in Cells :
            Sample(c) = <<>> =>
                \A i \in DOMAIN return_periods :
                    /\ return_periods[i] \in DOMAIN evSink.vars
                    /\ IsNaN(Stored(return_periods[i], c))

\* a cell on which the fit fails: it raises, or its sample is degenerate
FitFails(c) ==
    /\ Sample(c) # <<>>
    /\ \/ fitted[c].k = "raises"
       \/ Degenerate(Sample(c))

\* C6: when a run has ended, the artifact has been written by it, every cell on
\* which the fit failed is missing in every map and every other cell with a
\* sample holds its return levels.
C6_FitFailureIsolated ==
    (evPc \in {"saved", "aborted"} /\ \E c \in Cells : FitFails(c)) =>
        /\ evSink.by = evRun
        /\ \A c \in Cells : \A i \in DOMAIN return_periods :
              /\ return_periods[i] \in DOMAIN evSink.vars
              /\ FitFails(c) => IsNaN(Stored(return_periods[i], c))
              /\ (Sample(c) # <<>> /\ ~FitFails(c)) =>
                    Stored(return_periods[i], c).k = "num"

PositiveScale(c) ==
    /\ fitted[c].k = "params"
    /\ fitted[c].loc.k = "num"
    /\ fitted[c].scale.k = "num"
    /\ fitted[c].scale.v > 0

-----------------------------------------------------------------------------
(* Two workers run the Indicator Calculator's cell concurrently: the same    *)
(* enumeration of input files, the same sink.  Each worker executes the cell *)
(* of Spec; os.path.exists and to_netcdf are separate system calls, so the   *)
(* other worker can take steps between a worker's check and its write.       *)

Workers == {1, 2}

\* the input files of the two-worker runs: every kind of file of FileChoices,
\* one series per set of variables
ParFileChoices ==
    {File(FALSE, TRUE, {}, 1), File(TRUE, FALSE, {}, 1), File(TRUE, TRUE, {}, 1),
     File(TRUE, TRUE, {"t2m"}, 1), File(TRUE, TRUE, {"tp"}, 1),
     File(TRUE, TRUE, {"t2m", "tp"}, 2)}

\* the position of a worker: pc and the loop indices as in Spec (the indices
\* are dead once the cell has ended and are reset), and pending, true between
\* an os.path.exists that returned False and the end of the else-branch that
\* follows it
At(p, f, st, pend) == [pc |-> p, fileIdx |-> f, step |-> st, pending |-> pend]

\* the variables the workers do not touch
OthersOfPar ==
    UNCHANGED <<files, pc, fileIdx, step, sink0, attempted, visited, failed,
                writes, daysVars, evVars>>

\* the end of one iteration of an indicator loop of worker w
AdvanceOf(w) ==
    LET me == workers[w]
    IN IF me.step < Len(ItemsOf(me.pc))
       THEN At(me.pc, me.fileIdx, me.step + 1, FALSE)
       ELSE At("loop", me.fileIdx + 1, 0, FALSE)

\* the enumeration of worker w is exhausted: its cell ends normally
ParLoopEnd(w) ==
    /\ workers[w].pc = "loop"
    /\ workers[w].fileIdx > Len(files)
    /\ workers' = [workers EXCEPT ![w] = At("done", 0, 0, FALSE)]
    /\ UNCHANGED <<sink, wrote>>
    /\ OthersOfPar

\* if file.endswith(".nc") is false: next file
ParSkipNotNc(w) ==
    /\ workers[w].pc = "loop"
    /\ workers[w].fileIdx <= Len(files)
    /\ ~files[workers[w].fileIdx].nc
    /\ workers' = [workers EXCEPT ![w].fileIdx = @ + 1]
    /\ UNCHANGED <<sink, wrote>>
    /\ OthersOfPar

\* xr.open_dataset raises in worker w: its cell ends with the exception
ParOpenRaises(w) ==
    /\ workers[w].pc = "loop"
    /\ workers[w].fileIdx <= Len(files)
    /\ files[workers[w].fileIdx].nc
    /\ ~files[workers[w].fileIdx].readable
    /\ workers' = [workers EXCEPT ![w] = At("aborted", 0, 0, FALSE)]
    /\ UNCHANGED <<sink, wrote>>
    /\ OthersOfPar

\* the dataset opens in worker w and is dispatched on its variables
ParOpenAndDispatch(w) ==
    /\ workers[w].pc = "loop"
    /\ workers[w].fileIdx <= Len(files)
    /\ files[workers[w].fileIdx].nc
    /\ files[workers[w].fileIdx].readable
    /\ LET f == workers[w].fileIdx
           b == Branch(files[f])
       IN workers' = [workers EXCEPT ![w] =
              IF b = "none" THEN At("loop", f + 1, 0, FALSE)
              ELSE At(b, f, 1, FALSE)]
    /\ UNCHANGED <<sink, wrote>>
    /\ OthersOfPar

\* os.path.exists(output_path) is true in worker w: the indicator is skipped
ParSkipExisting(w) ==
    /\ workers[w].pc \in {"temperature", "precipitation"}
    /\ ~workers[w].pending
    /\ Exists(sink, ItemsOf(workers[w].pc)[workers[w].step].fname)
    /\ workers' = [workers EXCEPT ![w] = AdvanceOf(w)]
    /\ UNCHANGED <<sink, wrote>>
    /\ OthersOfPar

\* os.path.exists(output_path) is false in worker w: it enters the else-branch
ParFindAbsent(w) ==
    /\ workers[w].pc \in {"temperature", "precipitation"}
    /\ ~workers[w].pending
    /\ ~Exists(sink, ItemsOf(workers[w].pc)[workers[w].step].fname)
    /\ workers' = [workers EXCEPT ![w].pending = TRUE]
    /\ UNCHANGED <<sink, wrote>>
    /\ OthersOfPar

\* worker w computes the indicator and to_netcdf (mode "w") creates or replaces
\* the file, whatever the sink holds by now
ParComputeAndSave(w) ==
    /\ workers[w].pc \in {"temperature", "precipitation"}
    /\ workers[w].pending
    /\ LET item == ItemsOf(workers[w].pc)[workers[w].step]
           f == workers[w].fileIdx
       IN /\ sink' = [sink EXCEPT ![item.fname] =
                        [val |-> IndicatorValue(files[f], item), by |-> f]]
          /\ wrote' = wrote \cup {<<w, item.fname>>}
    /\ workers' = [workers EXCEPT ![w] = AdvanceOf(w)]
    /\ OthersOfPar

\* the computation or the write raises in worker w: its cell ends with it
ParComputeRaises(w) ==
    /\ workers[w].pc \in {"temperature", "precipitation"}
    /\ workers[w].pending
    /\ workers' = [workers EXCEPT ![w] = At("aborted", 0, 0, FALSE)]
    /\ UNCHANGED <<sink, wrote>>
    /\ OthersOfPar

InitPar ==
    /\ files \in [1..NFiles -> ParFileChoices]
    /\ sink = [nme \in Names |-> Absent]
    /\ workers = [w \in Workers |-> At("loop", 1, 0, FALSE)]
    /\ wrote = {}
    /\ pc = "off"
    /\ fileIdx = 0
    /\ step = 0
    /\ sink0 = <<>>
    /\ attempted = {}
    /\ visited = {}
    /\ failed = {}
    /\ writes = <<>>
    /\ DaysIdle
    /\ EVIdle

NextPar ==
    \/ \E w \in Workers : ParLoopEnd(w)
    \/ \E w \in Workers : ParSkipNotNc(w)
    \/ \E w \in Workers : ParOpenRaises(w)
    \/ \E w \in Workers : ParOpenAndDispatch(w)
    \/ \E w \in Workers : ParSkipExisting(w)
    \/ \E w \in Workers : ParFindAbsent(w)
    \/ \E w \in Workers : ParComputeAndSave(w)
    \/ \E w \in Workers : ParComputeRaises(w)

SpecPar == InitPar /\ [][NextPar]_vars

-----------------------------------------------------------------------------
(* Claim of the two-worker specification (SpecPar) *)

\* C11: when two workers run the Indicator Calculator concurrently against the
\* same sink, there is no artifact name that both workers found absent and
\* both wrote (a worker writes a name only after it found the name absent).
C11_CheckAndWriteAtMostOnce ==
    \A fname \in Names : ~(\A w \in Workers : <<w, fname>> \in wrote)

=============================================================================
